---- MODULE Spec2Model ----
(***************************************************************************)
(* Campus Insight: the chunking / indexing / retrieval engine              *)
(* (embeddings_search.py), the answer extractor, the date tagger, the      *)
(* document lifecycle (process_file, delete) and the search endpoint       *)
(* (app.py, backend_main.py).                                              *)
(*                                                                         *)
(* Text is a sequence of one-character strings.  An optional value is a    *)
(* sequence of length 0 (Python None) or 1 (the value).                    *)
(***************************************************************************)
EXTENDS Integers, Sequences, FiniteSets, TLC

VARIABLES
    store,        \* the chroma collection: a set of entries, one per id
    disk,         \* the filenames present in DOCS_FOLDER
    storeUp,      \* whether the index store is accessible
    ret,          \* the last call: operation, arguments, outcome
    indexedWith,  \* history: chunks upserted per source_url since its last purge
    ops,          \* history: number of calls made so far
    arg,          \* pure-function specifications: the input
    out,          \* pure-function specifications: the output
    pc,           \* search endpoint: position of the request handler
    results,      \* search endpoint: the engine's ranked results
    futures,      \* search endpoint: the submitted futures, index-aligned
    response_items\* search endpoint: the response built so far

vars == <<store, disk, storeUp, ret, indexedWith, ops, arg, out, pc, results,
          futures, response_items>>

engineVars == <<store, disk, storeUp, ret, indexedWith, ops>>
pureVars == <<arg, out>>
endpointVars == <<pc, results, futures, response_items>>

-----------------------------------------------------------------------------
(* Optional values and small helpers *)

None == <<>>
Some(x) == <<x>>

Min(a, b) == IF a < b THEN a ELSE b

Max(a, b) == IF a > b THEN a ELSE b

\* Python's s[i:j] for 0 <= i, with j clamped to len(s)
Slice(s, i, j) == SubSeq(s, i + 1, Min(j, Len(s)))

RECURSIVE Concat(_)
Concat(ss) == IF ss = <<>> THEN <<>> ELSE Head(ss) \o Concat(Tail(ss))

-----------------------------------------------------------------------------
(* Characters *)

Digits == <<"0", "1", "2", "3", "4", "5", "6", "7", "8", "9">>

DigitChars == {Digits[i] : i \in 1..10}

SpaceChars == {" ", "\t", "\n", "\r", "\f"}

UpperChars == <<"A", "B", "C", "D", "E", "F", "G", "H", "I", "J", "K", "L", "M",
                "N", "O", "P", "Q", "R", "S", "T", "U", "V", "W", "X", "Y", "Z">>

LowerChars == <<"a", "b", "c", "d", "e", "f", "g", "h", "i", "j", "k", "l", "m",
                "n", "o", "p", "q", "r", "s", "t", "u", "v", "w", "x", "y", "z">>

LetterChars == {LowerChars[i] : i \in 1..26}

\* str.lower() on one character (also what re.IGNORECASE compares)
LowerChar(c) ==
    IF \E i \in 1..26 : UpperChars[i] = c
    THEN LowerChars[CHOOSE i \in 1..26 : UpperChars[i] = c]
    ELSE c

\* str.lower()
Lower(s) == [i \in 1..Len(s) |-> LowerChar(s[i])]

\* int() of one decimal digit
DigitVal(c) == (CHOOSE i \in 1..10 : Digits[i] = c) - 1

\* int() of a string of decimal digits
RECURSIVE ToInt(_)
ToInt(s) ==
    IF s = <<>> THEN 0
    ELSE 10 * ToInt(SubSeq(s, 1, Len(s) - 1)) + DigitVal(s[Len(s)])

\* str() of a non-negative integer
RECURSIVE ToStr(_)
ToStr(n) ==
    IF n < 10 THEN <<Digits[n + 1]>>
    ELSE ToStr(n \div 10) \o <<Digits[(n % 10) + 1]>>

\* needle in haystack (Python's substring test)
StartsAt(s, k, w) ==
    /\ k + Len(w) <= Len(s)
    /\ \A j \in 1..Len(w) : s[k + j] = w[j]

Contains(s, w) == \E k \in 0..Len(s) : StartsAt(s, k, w)

\* the same test at one offset, ignoring case (w is lower case)
StartsAtI(s, k, w) ==
    /\ k + Len(w) <= Len(s)
    /\ \A j \in 1..Len(w) : LowerChar(s[k + j]) = w[j]

-----------------------------------------------------------------------------
(* Regular expressions, as re.search with re.IGNORECASE matches them.  A    *)
(* pattern is a sequence of items; an item is a character class repeated    *)
(* lo..hi times (hi = -1: unbounded) or an alternation of literals, taken   *)
(* lo..1 times.  Offsets count the characters consumed so far.              *)

Cls(cls, lo, hi) == [k |-> "cls", cls |-> cls, lits |-> {}, lo |-> lo, hi |-> hi]

Alt(lits, lo) == [k |-> "alt", cls |-> {}, lits |-> lits, lo |-> lo, hi |-> 1]

\* how many consecutive characters of class cls follow offset s
RECURSIVE Run(_, _, _)
Run(t, s, cls) ==
    IF s < Len(t) /\ LowerChar(t[s + 1]) \in cls THEN 1 + Run(t, s + 1, cls) ELSE 0

\* the offsets one item can end at when it starts at offset s
ItemEnds(it, t, s) ==
    IF it.k = "cls"
    THEN LET r == Run(t, s, it.cls)
             top == IF it.hi < 0 THEN r ELSE Min(it.hi, r)
         IN  {s + n : n \in it.lo..top}
    ELSE (IF it.lo = 0 THEN {s} ELSE {})
         \cup {s + Len(a) : a \in {b \in it.lits : StartsAtI(t, s, b)}}

\* the offsets items k.. can end at when they start at any offset of S
RECURSIVE EndsFrom(_, _, _, _)
EndsFrom(items, k, t, S) ==
    IF k > Len(items) \/ S = {} THEN S
    ELSE EndsFrom(items, k + 1, t, UNION {ItemEnds(items[k], t, s) : s \in S})

MatchEnds(items, t, s) == EndsFrom(items, 1, t, {s})

SetMax(S) == CHOOSE x \in S : \A y \in S : y <= x

SetMin(S) == CHOOSE x \in S : \A y \in S : x <= y

\* the offsets at which the pattern matches
MatchStarts(items, t) == {s \in 0..Len(t) : MatchEnds(items, t, s) # {}}

\* re.search(pattern, text, re.IGNORECASE): the leftmost match (greedy), as
\* Some(<<start, end>>), or None
re_search(items, t) ==
    LET starts == MatchStarts(items, t)
    IN  IF starts = {} THEN None
        ELSE LET s == SetMin(starts)
             IN  Some(<<s, SetMax(MatchEnds(items, t, s))>>)

\* match.group(0)
group0(t, m) == SubSeq(t, m[1] + 1, m[2])

-----------------------------------------------------------------------------
(* extract_date_from_text *)

MonthNames == {<<"j", "a", "n">>, <<"f", "e", "b">>, <<"m", "a", "r">>,
               <<"a", "p", "r">>, <<"m", "a", "y">>, <<"j", "u", "n">>,
               <<"j", "u", "l">>, <<"a", "u", "g">>, <<"s", "e", "p">>,
               <<"o", "c", "t">>, <<"n", "o", "v">>, <<"d", "e", "c">>}

Ordinals == {<<"s", "t">>, <<"n", "d">>, <<"r", "d">>, <<"t", "h">>}

D(lo, hi) == Cls(DigitChars, lo, hi)

Lit(c) == Cls({c}, 1, 1)

\* \d{2}/\d{2}/\d{4}
PatDMY == <<D(2, 2), Lit("/"), D(2, 2), Lit("/"), D(4, 4)>>

\* \d{4}-\d{2}-\d{2}
PatYMD == <<D(4, 4), Lit("-"), D(2, 2), Lit("-"), D(2, 2)>>

\* \d{1,2}(?:st|nd|rd|th)?\s+(?:Jan|...|Dec)[a-z]*\s+\d{4}
PatDayMonth == <<D(1, 2), Alt(Ordinals, 0), Cls(SpaceChars, 1, -1),
                 Alt(MonthNames, 1), Cls(LetterChars, 0, -1),
                 Cls(SpaceChars, 1, -1), D(4, 4)>>

\* (?:Jan|...|Dec)[a-z]*\s+\d{1,2},?\s+\d{4}
PatMonthDay == <<Alt(MonthNames, 1), Cls(LetterChars, 0, -1),
                 Cls(SpaceChars, 1, -1), D(1, 2), Cls({","}, 0, 1),
                 Cls(SpaceChars, 1, -1), D(4, 4)>>

\* the pattern list of app.py and of backend_main.py
patterns(variant) ==
    IF variant = "app" THEN <<PatDMY, PatYMD, PatMonthDay>>
    ELSE <<PatDMY, PatYMD, PatDayMonth, PatMonthDay>>

\* datetime.now().strftime("%Y-%m-%d")
Today == <<"2", "0", "2", "6", "-", "1", "1", "-", "0", "5">>

\* a faulty variant: the earliest match in the text wins, whatever its pattern
extract_date_leftmost(variant, text) ==
    LET ps == patterns(variant)
        hits == {k \in 1..Len(ps) : re_search(ps[k], text) # None}
    IN  IF hits = {} THEN Today
        ELSE LET k == CHOOSE h \in hits :
                        \A g \in hits :
                            \/ re_search(ps[h], text)[1][1] < re_search(ps[g], text)[1][1]
                            \/ /\ re_search(ps[h], text)[1][1] = re_search(ps[g], text)[1][1]
                               /\ h <= g
             IN  group0(text, re_search(ps[k], text)[1])

\* for pattern in patterns: match = re.search(...); if match: return match.group(0)
RECURSIVE first_match(_, _, _)
first_match(ps, k, text) ==
    IF k > Len(ps) THEN Today
    ELSE LET match == re_search(ps[k], text)
         IN  IF match # None THEN group0(text, match[1])
             ELSE first_match(ps, k + 1, text)

extract_date_from_text(variant, text) == first_match(patterns(variant), 1, text)

-----------------------------------------------------------------------------
(* calculate_smart_age and get_ai_extraction *)

\* one match of (199\d|200\d|201\d) at offset s
YearAt(t, s) ==
    /\ s + 4 <= Len(t)
    /\ <<t[s + 1], t[s + 2], t[s + 3]>> \in
           {<<"1", "9", "9">>, <<"2", "0", "0">>, <<"2", "0", "1">>}
    /\ t[s + 4] \in DigitChars

\* re.findall(r'(199\d|200\d|201\d)', text): non-overlapping, left to right
RECURSIVE findall_years(_, _)
findall_years(t, s) ==
    IF s + 4 > Len(t) THEN <<>>
    ELSE IF YearAt(t, s) THEN <<SubSeq(t, s + 1, s + 4)>> \o findall_years(t, s + 4)
    ELSE findall_years(t, s + 1)

calculate_smart_age(text, current_year) ==
    LET year_matches == findall_years(text, 0)
        possible_ages == {current_year - ToInt(year_matches[i]) :
                              i \in {j \in 1..Len(year_matches) :
                                         /\ 1980 < ToInt(year_matches[j])
                                         /\ ToInt(year_matches[j]) < current_year - 15}}
    IN  IF possible_ages # {} THEN Some(ToStr(SetMax(possible_ages))) ELSE None

\* str.strip()
RECURSIVE lstrip(_)
lstrip(s) == IF s # <<>> /\ Head(s) \in SpaceChars THEN lstrip(Tail(s)) ELSE s

RECURSIVE rstrip(_)
rstrip(s) ==
    IF s # <<>> /\ s[Len(s)] \in SpaceChars THEN rstrip(SubSeq(s, 1, Len(s) - 1)) ELSE s

strip(s) == rstrip(lstrip(s))

\* .replace('"', '').replace("'", "").replace(".", "")
remove_quotes(s) == SelectSeq(s, LAMBDA c : c \notin {"\"", "'", "."})

NoneWord == <<"N", "o", "n", "e">>

AgeWord == <<"a", "g", "e">>

MaxAnswerLen == 50

\* the reply handling of get_ai_extraction, lines 132-138
clean_reply(reply) ==
    LET answer == remove_quotes(strip(reply))
    IN  IF Contains(answer, NoneWord) \/ Len(answer) > MaxAnswerLen THEN None
        ELSE Some(answer)

\* a faulty variant: the failure of the external capability is not caught
ask_llm_uncaught(llm) ==
    IF llm.kind = "raise"
    THEN [raised |-> TRUE, value |-> None, llm_called |-> TRUE]
    ELSE [raised |-> FALSE, value |-> clean_reply(llm.text), llm_called |-> TRUE]

\* the try block of get_ai_extraction; llm is what model.generate_content does:
\* it raises, or it replies with a text
ask_llm(llm) ==
    IF llm.kind = "raise"
    THEN [raised |-> FALSE, value |-> None, llm_called |-> TRUE]
    ELSE [raised |-> FALSE, value |-> clean_reply(llm.text), llm_called |-> TRUE]

get_ai_extraction(text, query, current_year, llm) ==
    LET math_age == IF Contains(Lower(query), AgeWord)
                    THEN calculate_smart_age(text, current_year)
                    ELSE None
    IN  IF math_age # None
        THEN [raised |-> FALSE, value |-> math_age, llm_called |-> FALSE]
        ELSE ask_llm(llm)

-----------------------------------------------------------------------------
(* SemanticSearchEngine *)

chunk_size == 500

chunk_overlap == 50

\* range(0, n, step) as a sequence
range_step(n, step) == [k \in 1..((n + step - 1) \div step) |-> (k - 1) * step]

\* a faulty variant: the windows do not overlap and are one character short
chunks_of_short(text) ==
    LET starts == range_step(Len(text), chunk_size - chunk_overlap)
    IN  [k \in 1..Len(starts) |-> Slice(text, starts[k], starts[k] + chunk_size - chunk_overlap - 1)]

\* [text[i:i+chunk_size] for i in range(0, len(text), chunk_size - 50)]
chunks_of(text) ==
    LET starts == range_step(Len(text), chunk_size - chunk_overlap)
    IN  [k \in 1..Len(starts) |-> Slice(text, starts[k], starts[k] + chunk_size)]

\* metadata lookups of chroma's where filter: every filtered field is present
\* and equal; where = None filters nothing
Matches(metadata, where) ==
    \A k \in DOMAIN where : k \in DOMAIN metadata /\ metadata[k] = where[k]

\* collection.upsert: insert, or overwrite the entry that has the same id
upsert(st, new) == {e \in st : \A x \in new : x.id # e.id} \cup new

\* f"{metadata['title']}_{i}_{str(uuid.uuid4())[:8]}"; the titles here have no
\* underscore, so the string and the triple name the same ids
chunk_id(title, i, uuid) == <<title, i, uuid>>

\* index_document; uuids[i] is str(uuid.uuid4())[:8] of chunk i.  The result
\* says whether the call raised, and the collection afterwards.
index_document(st, up, text, metadata, uuids) ==
    LET chunks == chunks_of(text)
    IN  IF chunks = <<>> THEN [raised |-> FALSE, store |-> st, n |-> 0]
        ELSE IF "title" \notin DOMAIN metadata
        THEN [raised |-> TRUE, store |-> st, n |-> 0]
        ELSE IF ~up THEN [raised |-> TRUE, store |-> st, n |-> 0]
        ELSE [raised |-> FALSE,
              store |-> upsert(st, {[id |-> chunk_id(metadata.title, i - 1, uuids[i]),
                                     document |-> chunks[i],
                                     metadata |-> metadata] : i \in 1..Len(chunks)}),
              n |-> Len(chunks)]

\* the entries a query ranks: those the where filter keeps
Candidates(st, where) == {e \in st : Matches(e.metadata, where)}

\* collection.query: the n nearest candidates, nearest first; row gives the
\* distance of the query's embedding to each stored text; entries at the same
\* distance come in any order
RECURSIVE query(_, _, _)
query(S, row, n) ==
    IF S = {} \/ n = 0 THEN {<<>>}
    ELSE LET nearest == {e \in S : \A x \in S : row[e.document] <= row[x.document]}
         IN  UNION {{<<[id |-> e.id, document |-> e.document, metadata |-> e.metadata,
                        distance |-> row[e.document]]>> \o r :
                         r \in query(S \ {e}, row, n - 1)} : e \in nearest}

\* a faulty variant: the score is the distance itself
clean_results_distance(raw) ==
    [i \in 1..Len(raw) |->
        [id |-> raw[i].id, document |-> raw[i].document, metadata |-> raw[i].metadata,
         relevance_score |-> raw[i].distance]]

\* the loop of search, lines 40-48
clean_results(raw) ==
    [i \in 1..Len(raw) |->
        [id |-> raw[i].id, document |-> raw[i].document, metadata |-> raw[i].metadata,
         relevance_score |-> 1 - raw[i].distance]]

\* search: every result list the collection's ranking allows
search(st, row, n_results, filters) ==
    {clean_results(raw) : raw \in query(Candidates(st, filters), row, n_results)}

\* get_document_count
get_document_count(st) == Cardinality(st)

BaseUrl == "http://localhost:8000/files/"

\* f"http://localhost:8000/files/{name}"
Url(name) == <<BaseUrl, name>>

\* a faulty variant: deleting what is not stored is an error
delete_document_strict(st, up, filename) ==
    IF ~up \/ Candidates(st, [source_url |-> Url(filename)]) = {}
    THEN [raised |-> TRUE, store |-> st]
    ELSE [raised |-> FALSE,
          store |-> st \ Candidates(st, [source_url |-> Url(filename)])]

\* delete_document of the engine
delete_document(st, up, filename) ==
    IF ~up THEN [raised |-> TRUE, store |-> st]
    ELSE [raised |-> FALSE,
          store |-> st \ Candidates(st, [source_url |-> Url(filename)])]

-----------------------------------------------------------------------------
(* The document lifecycle of app.py *)

\* a file name is <<stem, suffix>>: Path.stem and Path.suffix
Files == {<<"a", ".pdf">>, <<"a", ".png">>, <<"b", ".pdf">>}

stem(file) == file[1]

TextExam == <<"E", "x", "a", "m", " ", "o", "n", " ", "1", "5", "/", "0", "3", "/",
    "2", "0", "2", "4">>

FeeNotice == <<"F", "e", "e", " ", "n", "o", "t", "i", "c", "e", ",", " ", "M", "a",
    "r", "c", "h", " ", "2", "0", ",", " ", "2", "0", "2", "4", " ">>

LongLen == 460

\* a two-chunk text: the fee notice, padded to LongLen characters
TextFee == FeeNotice \o [p \in 1..(LongLen - Len(FeeNotice)) |-> "x"]

Texts == {TextExam, TextFee}

WordResume == <<"r", "e", "s", "u", "m", "e">>

WordCv == <<"c", "v">>

WordExam == <<"e", "x", "a", "m">>

WordFee == <<"f", "e", "e">>

\* the keyword rules of process_file, lines 152-156
category_of(text) ==
    LET text_lower == Lower(text)
    IN  IF Contains(text_lower, WordResume) \/ Contains(text_lower, WordCv) THEN "Resume"
        ELSE IF Contains(text_lower, WordExam) THEN "Exams"
        ELSE IF Contains(text_lower, WordFee) THEN "Fees"
        ELSE "General"

\* the tags of the lifecycle's texts, computed once
DateOf == [t \in Texts |-> extract_date_from_text("app", t)]

CategoryOf == [t \in Texts |-> category_of(t)]

\* the metadata process_file builds, lines 158-163
metadata_of(file, text) ==
    [title |-> stem(file), source_url |-> Url(file),
     date |-> DateOf[text], category |-> CategoryOf[text]]

\* a faulty variant: process_file without its try/except
process_file_unguarded(st, up, ocr, uuids) ==
    IF ocr.kind = "raise" THEN [raised |-> TRUE, value |-> FALSE, store |-> st, n |-> 0]
    ELSE IF ocr.kind = "missing" \/ ocr.text = <<>>
    THEN [raised |-> FALSE, value |-> FALSE, store |-> st, n |-> 0]
    ELSE LET r == index_document(st, up, ocr.text, metadata_of(ocr.file, ocr.text), uuids)
         IN  [raised |-> r.raised, value |-> ~r.raised, store |-> r.store, n |-> r.n]

\* a faulty variant: a failure of index_document leaves process_file
process_file_reraise(st, up, ocr, uuids) ==
    IF ocr.kind = "raise" THEN [raised |-> FALSE, value |-> FALSE, store |-> st, n |-> 0]
    ELSE IF ocr.kind = "missing" \/ ocr.text = <<>>
    THEN [raised |-> FALSE, value |-> FALSE, store |-> st, n |-> 0]
    ELSE LET r == index_document(st, up, ocr.text, metadata_of(ocr.file, ocr.text), uuids)
         IN  [raised |-> r.raised, value |-> ~r.raised, store |-> r.store, n |-> r.n]

\* process_file; ocr is what ocr_processor.process_document did for the file:
\* it raised, it returned no text at all, or it returned the text it read (""
\* when it read nothing)
process_file(st, up, ocr, uuids) ==
    IF ocr.kind = "raise" THEN [raised |-> FALSE, value |-> FALSE, store |-> st, n |-> 0]
    ELSE IF ocr.kind = "missing" \/ ocr.text = <<>>
    THEN [raised |-> FALSE, value |-> FALSE, store |-> st, n |-> 0]
    ELSE LET r == index_document(st, up, ocr.text, metadata_of(ocr.file, ocr.text), uuids)
         IN  [raised |-> FALSE, value |-> ~r.raised, store |-> r.store, n |-> r.n]

-----------------------------------------------------------------------------
(* Inputs of the pure-function specifications *)
FragDMY == <<"1", "5", "/", "0", "3", "/", "2", "0", "2", "4">>
FragYMD == <<"2", "0", "2", "4", "-", "0", "3", "-", "1", "5">>
FragMonthDay == <<"M", "a", "r", "c", "h", " ", "2", "0", ",", " ", "2", "0", "2",
    "4">>
FragDayMonth == <<"2", "0", "t", "h", " ", "m", "a", "r", "c", "h", " ", "2", "0",
    "2", "4">>
FragShortDMY == <<"5", "/", "3", "/", "2", "0", "2", "4">>
FragOn == <<" ", "o", "n", " ">>
FragUpperMonth == <<"M", "A", "R", " ", "5", " ", "2", "0", "2", "4">>
FragX1 == <<"x", "1">>
FragMail == <<"j", "o", "h", "n", ".", "1", "9", "9", "9", "@", "m", "a", "i", "l",
    ".", "c", "o", "m">>
FragY1985 == <<"1", "9", "8", "5">>
FragY2005 == <<" ", "2", "0", "0", "5">>
FragY2012 == <<"2", "0", "1", "2", " ">>
FragY1980 == <<"1", "9", "8", "0">>
FragBorn == <<"b", "o", "r", "n", " ">>
FragRun == <<"2", "0", "1", "1", "9", "9", "5">>
FragY1992 == <<"1", "9", "9", "2">>
QueryAge == <<"a", "g", "e">>
QueryAgeUpper == <<"W", "h", "a", "t", " ", "i", "s", " ", "t", "h", "e", " ", "A",
    "g", "e", "?">>
QueryFee == <<"f", "e", "e", " ", "d", "u", "e">>
DateFrags == {FragDMY, FragYMD, FragMonthDay, FragDayMonth, FragShortDMY, FragOn,
              FragUpperMonth, FragX1}

AgeFrags == {FragMail, FragY1985, FragY2005, FragY2012, FragY1980, FragBorn, FragRun,
             FragY1992}

AgeQueries == {QueryAge, QueryAgeUpper, QueryFee}

\* texts made of at most n fragments
RECURSIVE TextsOf(_, _)
TextsOf(frags, n) ==
    IF n = 0 THEN {<<>>}
    ELSE LET shorter == TextsOf(frags, n - 1)
         IN  shorter \cup {f \o t : f \in frags, t \in shorter}

MaxDateFrags == 3

MaxAgeFrags == 2

MaxTextLen == 1000

\* datetime.now().year
Years == {2025, 2026}

\* a text of n characters, all different
TextOfLen(n) == [p \in 1..n |-> p]

IdleEngine ==
    /\ store = {}
    /\ disk = {}
    /\ storeUp = TRUE
    /\ ret = [op |-> "none"]
    /\ indexedWith = <<>>
    /\ ops = 0

IdleEndpoint ==
    /\ pc = "idle"
    /\ results = <<>>
    /\ futures = <<>>
    /\ response_items = <<>>

NotRun == [done |-> FALSE]

Ran(v) == [done |-> TRUE, value |-> v]

-----------------------------------------------------------------------------
(* Spec: the document lifecycle over the engine, call by call *)

MaxOps == 4

NSuffix == 2

MaxResults == 2

\* the values str(uuid.uuid4())[:8] can take
Suffix == 1..NSuffix

Urls == {Url(f) : f \in Files}

\* what OCR reads from each file when it is in the documents folder
ContentOf(file) == IF stem(file) = "a" THEN TextExam ELSE TextFee

\* the texts the collection can hold
AllChunks == UNION {{chunks_of(t)[k] : k \in 1..Len(chunks_of(t))} : t \in Texts}

\* the queries: each is known by the distance of its embedding to every text
QueryRows ==
    {[c \in AllChunks |-> IF c = TextExam THEN 0 ELSE 1],
     [c \in AllChunks |-> IF c = TextExam THEN 2 ELSE IF Len(c) = chunk_size THEN 1 ELSE 0],
     [c \in AllChunks |-> 1]}

Filters == {None, [source_url |-> Url(<<"a", ".pdf">>)]}

\* history: n more chunks were upserted under the source_url
Upserted(url, n) == [indexedWith EXCEPT ![url] = @ + n]

Init ==
    /\ store = {}
    /\ disk = {}
    /\ storeUp = TRUE
    /\ ret = [op |-> "none"]
    /\ indexedWith = [u \in Urls |-> 0]
    /\ ops = 0
    /\ arg = <<>>
    /\ out = NotRun
    /\ IdleEndpoint

Called == ops < MaxOps /\ ops' = ops + 1

\* what ocr_processor.process_document returns for a path: the file's text,
\* the empty text when the file cannot be read
ocr_read(file) ==
    [kind |-> "text", file |-> file,
     text |-> IF file \in disk THEN ContentOf(file) ELSE <<>>]

\* process_file(DOCS_FOLDER / filename), from a rescan or a scrape job
ProcessFile ==
    \E file \in Files, kind \in {"text", "missing", "raise"} :
      LET ocr == IF kind = "text" THEN ocr_read(file)
                 ELSE [kind |-> kind, file |-> file, text |-> <<>>]
      IN  \E uuids \in [1..Len(chunks_of(ocr.text)) -> Suffix] :
            LET r == process_file(store, storeUp, ocr, uuids)
            IN  /\ Called
                /\ store' = r.store
                /\ indexedWith' = Upserted(Url(file), r.n)
                /\ ret' = [op |-> "process_file", raised |-> r.raised, value |-> r.value,
                           ocr |-> ocr, n |-> r.n]
                /\ UNCHANGED <<disk, storeUp, pureVars, endpointVars>>

\* POST /api/upload: the file is written, then processed
UploadFile ==
    \E file \in Files :
      \E uuids \in [1..Len(chunks_of(ContentOf(file))) -> Suffix] :
        LET ocr == [kind |-> "text", file |-> file, text |-> ContentOf(file)]
            r == process_file(store, storeUp, ocr, uuids)
        IN  /\ Called
            /\ disk' = disk \cup {file}
            /\ store' = r.store
            /\ indexedWith' = Upserted(Url(file), r.n)
            /\ ret' = [op |-> "upload_file", raised |-> r.raised,
                       status |-> IF r.value THEN "success" ELSE "warning",
                       ocr |-> ocr, n |-> r.n]
            /\ UNCHANGED <<storeUp, pureVars, endpointVars>>

\* DELETE /api/documents/{filename}: the file is removed, then its vectors.
\* History kept with the call: how many entries it matched, and whether the
\* call before it was a delete of the same file that did not raise.
DeleteEndpoint ==
    \E file \in Files :
      LET r == delete_document(store, storeUp, file)
      IN  /\ Called
          /\ disk' = disk \ {file}
          /\ store' = r.store
          /\ indexedWith' = IF r.raised THEN indexedWith
                            ELSE [indexedWith EXCEPT ![Url(file)] = 0]
          /\ ret' = [op |-> "delete_document", raised |-> r.raised, filename |-> file,
                     matched |-> Cardinality(Candidates(store, [source_url |-> Url(file)])),
                     again |-> /\ ret.op = "delete_document"
                               /\ ret.filename = file
                               /\ ~ret.raised]
          /\ UNCHANGED <<storeUp, pureVars, endpointVars>>

\* search_engine.search(query, n_results, filters); collection.query raises
\* when the store is inaccessible
Search ==
    \E n_results \in 1..MaxResults, filters \in Filters, row \in QueryRows :
      \E value \in IF storeUp THEN search(store, row, n_results, filters) ELSE {<<>>} :
        /\ Called
        /\ ret' = [op |-> "search", raised |-> ~storeUp, n_results |-> n_results,
                   filters |-> filters, row |-> row, value |-> value]
        /\ UNCHANGED <<store, disk, storeUp, indexedWith, pureVars, endpointVars>>

\* search_engine.get_document_count()
Count ==
    /\ Called
    /\ ret' = IF storeUp
              THEN [op |-> "get_document_count", raised |-> FALSE,
                    value |-> get_document_count(store)]
              ELSE [op |-> "get_document_count", raised |-> TRUE, value |-> 0]
    /\ UNCHANGED <<store, disk, storeUp, indexedWith, pureVars, endpointVars>>

\* what GET /api/stats answers: the count of the store, or the answer of the
\* except branch
get_stats(st, up) ==
    IF up
    THEN [raised |-> FALSE, total_documents |-> get_document_count(st),
          system_health |-> "100%"]
    ELSE [raised |-> FALSE, total_documents |-> 0, system_health |-> "Error"]

\* GET /api/stats
GetStats ==
    /\ Called
    /\ ret' = [op |-> "get_stats"] @@ get_stats(store, storeUp)
    /\ UNCHANGED <<store, disk, storeUp, indexedWith, pureVars, endpointVars>>

\* the index store becomes inaccessible, or accessible again
StoreFails ==
    /\ storeUp
    /\ storeUp' = FALSE
    /\ UNCHANGED <<store, disk, ret, indexedWith, ops, pureVars, endpointVars>>

StoreRecovers ==
    /\ ~storeUp
    /\ storeUp' = TRUE
    /\ UNCHANGED <<store, disk, ret, indexedWith, ops, pureVars, endpointVars>>

Next ==
    \/ ProcessFile
    \/ UploadFile
    \/ DeleteEndpoint
    \/ Search
    \/ Count
    \/ GetStats
    \/ StoreFails
    \/ StoreRecovers

Spec == Init /\ [][Next]_vars

\* a call was just made
Step(op) == ops' = ops + 1 /\ ret'.op = op

\* C1: when two documents with distinct source locators are indexed and one of
\* them is deleted, the count falls by exactly the number of chunks that
\* document was indexed with, no entry keeps the deleted locator, and no later
\* search returns a chunk of a locator that was deleted and not indexed again.
C1_DeleteRemovesIndexed ==
    [][/\ (/\ Step("delete_document")
           /\ ~ret'.raised
           /\ indexedWith[Url(ret'.filename)] > 0
           /\ \E u \in Urls \ {Url(ret'.filename)} : indexedWith[u] > 0)
          => /\ get_document_count(store') =
                    get_document_count(store) - indexedWith[Url(ret'.filename)]
             /\ \A e \in store' : e.metadata.source_url # Url(ret'.filename)
       /\ Step("search")
          => \A i \in 1..Len(ret'.value) :
                 indexedWith[ret'.value[i].metadata.source_url] > 0]_vars

\* C2: a delete that directly follows a delete of the same file, or that names
\* a file with no stored chunks, raises nothing while the store is accessible
\* and leaves the store as it was.
C2_DeleteIdempotent ==
    [][(/\ Step("delete_document")
        /\ storeUp
        /\ (ret'.again \/ ret'.matched = 0))
       => (~ret'.raised /\ store' = store)]_vars

C2_Witness ==
    /\ ret.op = "delete_document"
    /\ ret.again
    /\ ~ret.raised
    /\ store # {}
    /\ Url(ret.filename) \notin {e.metadata.source_url : e \in store}

\* C4: a search returns at most n_results results, all the candidates when
\* they are fewer; each result is a stored entry with relevance_score 1 minus
\* its distance; no candidate left out is nearer than one returned; the scores
\* do not increase down the list.
C4_SearchRanked ==
    (ret.op = "search" /\ ~ret.raised) =>
        LET v == ret.value
            cands == Candidates(store, ret.filters)
        IN  /\ Len(v) <= ret.n_results
            /\ Len(v) = Min(ret.n_results, Cardinality(cands))
            /\ \A i \in 1..Len(v) :
                   /\ \E e \in cands : /\ e.id = v[i].id
                                       /\ e.document = v[i].document
                                       /\ e.metadata = v[i].metadata
                   /\ v[i].relevance_score = 1 - ret.row[v[i].document]
                   /\ \A e \in cands :
                          (\A j \in 1..Len(v) : v[j].id # e.id)
                              => ret.row[e.document] >= ret.row[v[i].document]
            /\ \A i, j \in 1..Len(v) :
                   i < j => /\ v[i].relevance_score >= v[j].relevance_score
                            /\ v[i].id # v[j].id

C4_Witness ==
    /\ ret.op = "search"
    /\ ~ret.raised
    /\ ret.filters = None
    /\ Len(ret.value) = 2
    /\ Cardinality(store) > 2
    /\ ret.value[1].relevance_score > ret.value[2].relevance_score

\* C8: process_file raises nothing and returns a boolean; when OCR yields no
\* text or the empty text it returns False and the store is left as it was.
C8_ProcessFileTotal ==
    [][Step("process_file")
       => /\ ~ret'.raised
          /\ ret'.value \in BOOLEAN
          /\ (ret'.ocr.kind = "missing" \/ ret'.ocr.text = <<>>)
                 => (ret'.value = FALSE /\ store' = store)]_vars

C8_Witness ==
    /\ ret.op = "process_file"
    /\ ret.ocr.kind = "text"
    /\ ret.ocr.text = <<>>
    /\ ret.value = FALSE
    /\ store # {}

C8_WitnessIndexFails ==
    /\ ret.op = "process_file"
    /\ ret.ocr.text # <<>>
    /\ ~storeUp
    /\ ret.value = FALSE

\* the call just made needed the index store
NeedsStore(r) ==
    \/ r.op \in {"search", "delete_document", "get_document_count", "get_stats"}
    \/ r.op \in {"process_file", "upload_file"} /\ r.ocr.kind = "text" /\ r.ocr.text # <<>>

\* C12: a call that needs the index store while the store is inaccessible
\* ends in an error for its caller: it is not answered with False, with a
\* warning, with a success or with a zero count.
C12_StoreErrorSurfaced ==
    [][(ops' = ops + 1 /\ ~storeUp /\ NeedsStore(ret')) => ret'.raised]_vars

\* C13: the ids index_document gives to the chunks of a call differ from every
\* id stored and from each other: an indexing call overwrites nothing, every
\* entry stored before it is still stored after it, and the count grows by the
\* number of chunks of the call (so that with no deletes the count is the sum
\* of the chunk counts of all calls).
C13_FreshIds ==
    [][(Step("process_file") \/ Step("upload_file"))
       => /\ store \subseteq store'
          /\ get_document_count(store') = get_document_count(store) + ret'.n
          /\ \A e \in store' \ store : \A x \in store : x.id # e.id]_vars

-----------------------------------------------------------------------------
(* SpecIndex: single index_document calls, with and without a title *)

\* metadata of direct index_document calls: what process_file passes, and the
\* same without a title
MetaInputs ==
    {metadata_of(f, TextExam) : f \in Files}
        \cup {[source_url |-> Url(f), date |-> Today, category |-> "General"] : f \in Files}

\* the collections the calls start from: empty, or holding one indexed text
StoreInputs ==
    {{}, index_document({}, TRUE, TextExam, metadata_of(<<"a", ".pdf">>, TextExam), <<1>>).store}

InitIndex ==
    /\ arg \in [store : StoreInputs, up : BOOLEAN, text : {<<>>} \cup Texts,
                metadata : MetaInputs, uuids : [1..2 -> Suffix]]
    /\ out = NotRun
    /\ IdleEngine
    /\ IdleEndpoint

IndexDocument ==
    /\ ~out.done
    /\ out' = Ran(index_document(arg.store, arg.up, arg.text, arg.metadata, arg.uuids))
    /\ UNCHANGED <<arg, engineVars, endpointVars>>

SpecIndex == InitIndex /\ [][IndexDocument]_vars

\* C10: index_document rejects every call whose metadata has no title,
\* whatever the text, the empty text included, and upserts nothing then.
C10_RejectsMissingTitle ==
    (out.done /\ "title" \notin DOMAIN arg.metadata) =>
        (out.value.raised /\ out.value.store = arg.store)

-----------------------------------------------------------------------------
(* SpecSearch: POST /api/search, the handler and its pool of worker threads *)

ReplyAnswer == <<" ", "\"", "2", "1", "\"", ".", " ">>

ReplyNoneSentence == <<"A", "n", "s", "w", "e", "r", ":", " ", "N", ".", "o", "n",
    "e">>

\* a reply of MaxAnswerLen + 1 characters once cleaned
ReplyLong == <<".">> \o [p \in 1..(MaxAnswerLen + 1) |-> "y"]

\* what model.generate_content can do
EndpointLlm ==
    {[kind |-> "raise"]}
        \cup {[kind |-> "reply", text |-> t] :
                  t \in {ReplyAnswer, ReplyNoneSentence, ReplyLong}}

MaxDocs == 4

max_workers == 3

max_futures == 3

DefaultLimit == 5

\* the k-th stored text, and the file it came from
EndpointDoc(k) ==
    <<FragMail, FragBorn \o FragY1985, FragY1992 \o FragY2005, FeeNotice>>[((k - 1) % 4) + 1]

EndpointFile(k) == <<<<"d1", "d2", "d3", "d4", "d5", "d6">>[k], ".pdf">>

\* the collection after the first k texts were indexed
RECURSIVE EndpointStore(_)
EndpointStore(k) ==
    IF k = 0 THEN {}
    ELSE index_document(EndpointStore(k - 1), TRUE, EndpointDoc(k),
                        [title |-> stem(EndpointFile(k)), source_url |-> Url(EndpointFile(k)),
                         date |-> Today, category |-> "General"],
                        <<1>>).store

\* the queries' distances to the stored texts: rising or falling with k, with
\* ties
EndpointRows ==
    {[d \in {EndpointDoc(k) : k \in 1..MaxDocs} |->
         LET k == CHOOSE j \in 1..MaxDocs : EndpointDoc(j) = d
         IN  IF kind = "falling" THEN (MaxDocs - k) % 3 ELSE k % 3] :
        kind \in {"falling", "rising"}}

\* SearchQuery.filters of the request: absent, or an exact source_url
EndpointFilters == {None, [source_url |-> Url(EndpointFile(1))]}

InitSearch ==
    /\ store \in {EndpointStore(k) : k \in {2, MaxDocs}}
    /\ disk = {}
    /\ storeUp = TRUE
    /\ ret = [op |-> "none"]
    /\ indexedWith = <<>>
    /\ ops = 0
    /\ arg \in [query : {QueryAgeUpper, QueryFee}, limit : {2, DefaultLimit},
                row : EndpointRows, current_year : {2026}, filters : EndpointFilters]
    /\ out = NotRun
    /\ pc = "start"
    /\ results = <<>>
    /\ futures = <<>>
    /\ response_items = <<>>

\* dict.get(key, default)
get(d, key, default) == IF key \in DOMAIN d THEN d[key] ELSE default

\* SearchResult(...), lines 286-295
search_result(r, extracted) ==
    [id |-> r.id,
     title |-> get(r.metadata, "title", "Untitled"),
     content |-> r.document,
     source_url |-> get(r.metadata, "source_url", "#"),
     date |-> get(r.metadata, "date", "N/A"),
     relevance_score |-> r.relevance_score,
     category |-> get(r.metadata, "category", "General"),
     extracted_answer |-> extracted]

\* a faulty variant: every task is given the first result's text
task_text_first(rs, i) == rs[1].document

\* the text executor.submit hands to get_ai_extraction for result i
task_text(rs, i) == rs[i].document

Pending(text) == Some([state |-> "pending", text |-> text])

Queued == {i \in 1..Len(futures) : futures[i] # None /\ futures[i][1].state = "pending"}

Running == {i \in 1..Len(futures) : futures[i] # None /\ futures[i][1].state = "running"}

Finished == {i \in 1..Len(futures) : futures[i] # None /\ futures[i][1].state = "done"}

\* results = search_engine.search(query=query.query, n_results=query.limit)
EpSearch ==
    /\ pc = "start"
    /\ \E value \in search(store, arg.row, arg.limit, None) :
         /\ results' = value
         /\ pc' = IF value = <<>> THEN "collect" ELSE "submit"
    /\ UNCHANGED <<engineVars, pureVars, futures, response_items>>

\* one turn of the loop of lines 274-278
EpSubmit ==
    /\ pc = "submit"
    /\ LET i == Len(futures) + 1
       IN  /\ futures' = Append(futures, IF Len(futures) < max_futures
                                         THEN Pending(task_text(results, i))
                                         ELSE None)
           /\ pc' = IF i = Len(results) THEN "collect" ELSE "submit"
    /\ UNCHANGED <<engineVars, pureVars, results, response_items>>

\* a worker thread takes the oldest queued task
WorkerStart ==
    \E i \in Queued :
        /\ \A j \in Queued : i <= j
        /\ Cardinality(Running) < max_workers
        /\ futures' = [futures EXCEPT ![i] = Some([@[1] EXCEPT !.state = "running"])]
        /\ UNCHANGED <<engineVars, pureVars, pc, results, response_items>>

\* a worker thread finishes get_ai_extraction(r['document'], query.query)
WorkerFinish ==
    \E i \in Running, llm \in EndpointLlm :
        LET r == get_ai_extraction(futures[i][1].text, arg.query, arg.current_year, llm)
        IN  /\ futures' = [futures EXCEPT ![i] =
                               Some([state |-> "done", text |-> futures[i][1].text,
                                     llm |-> IF r.llm_called THEN llm ELSE [kind |-> "unused"],
                                     result |-> r,
                                     order |-> Cardinality(Finished) + 1])]
            /\ UNCHANGED <<engineVars, pureVars, pc, results, response_items>>

\* one turn of the loop of lines 280-295; futures[i].result() waits for the
\* worker and raises what the worker raised
EpCollect ==
    /\ pc = "collect"
    /\ Len(response_items) < Len(results)
    /\ LET i == Len(response_items) + 1
           fut == futures[i]
       IN  /\ (fut # None) => (i \in Finished)
           /\ IF fut # None /\ fut[1].result.raised
              THEN pc' = "error" /\ UNCHANGED response_items
              ELSE /\ response_items' =
                          Append(response_items,
                                 search_result(results[i],
                                               IF fut = None THEN None
                                               ELSE fut[1].result.value))
                   /\ pc' = pc
    /\ UNCHANGED <<engineVars, pureVars, results, futures>>

\* the with block is left once every worker is done; the response is returned
EpReturn ==
    /\ pc = "collect"
    /\ Len(response_items) = Len(results)
    /\ Queued = {}
    /\ Running = {}
    /\ pc' = "done"
    /\ UNCHANGED <<engineVars, pureVars, results, futures, response_items>>

NextSearch ==
    \/ EpSearch
    \/ EpSubmit
    \/ WorkerStart
    \/ WorkerFinish
    \/ EpCollect
    \/ EpReturn

SpecSearch == InitSearch /\ [][NextSearch]_vars

\* C5: at most 3 workers run, and only the first 3 results get a task; the
\* response has one item per ranked result, in ranked order; item i carries
\* the extraction of result i's own text, whatever order the workers finished
\* in; items from rank 4 on carry no answer.
C5_OrderedExtraction ==
    /\ Cardinality(Running) <= 3
    /\ \A i \in 1..Len(futures) : i > 3 => futures[i] = None
    /\ Len(response_items) <= Len(results)
    /\ pc = "done" => Len(response_items) = Len(results)
    /\ \A i \in 1..Len(response_items) :
           /\ response_items[i].id = results[i].id
           /\ response_items[i].content = results[i].document
           /\ response_items[i].relevance_score = results[i].relevance_score
           /\ i > 3 => response_items[i].extracted_answer = None
           /\ i <= 3 =>
                  LET f == futures[i][1]
                  IN  /\ f.text = results[i].document
                      /\ f.result = get_ai_extraction(results[i].document, arg.query,
                                                      arg.current_year, f.llm)
                      /\ response_items[i].extracted_answer = f.result.value

C5_Witness ==
    /\ pc = "done"
    /\ Len(response_items) = 4
    /\ futures[1][1].order = 3
    /\ futures[3][1].order = 1
    /\ response_items[1].extracted_answer # None
    /\ response_items[2].extracted_answer # None
    /\ response_items[1].extracted_answer # response_items[2].extracted_answer
    /\ response_items[1].content # response_items[2].content

\* C9: a failure of the LLM capability never leaves the worker: the request
\* does not fail, the response has every ranked result, and the result whose
\* extraction failed has no answer; a reply that has "None" in it, or is longer
\* than 50 characters once cleaned, gives no answer either.
C9_LlmFailureSwallowed ==
    /\ pc # "error"
    /\ pc = "done" =>
           /\ Len(response_items) = Len(results)
           /\ \A i \in 1..Len(results) : response_items[i].id = results[i].id
    /\ \A i \in Finished :
           LET f == futures[i][1]
           IN  /\ ~f.result.raised
               /\ f.llm.kind = "raise" => f.result.value = None
               /\ (/\ f.llm.kind = "reply"
                   /\ \/ Contains(f.llm.text, NoneWord)
                      \/ Contains(remove_quotes(strip(f.llm.text)), NoneWord)
                      \/ Len(remove_quotes(strip(f.llm.text))) > 50)
                      => f.result.value = None
               /\ (i <= Len(response_items) /\ f.result.value = None)
                      => response_items[i].extracted_answer = None

C9_Witness ==
    /\ pc = "done"
    /\ Len(response_items) = 4
    /\ futures[1][1].llm.kind = "raise"
    /\ response_items[1].extracted_answer = None
    /\ futures[2][1].llm.kind = "reply"
    /\ futures[2][1].llm.text = ReplyLong
    /\ response_items[2].extracted_answer = None
    /\ response_items[3].extracted_answer # None

\* C11: a search with a filter returns only chunks whose metadata equals the
\* filter on every filtered field, when the engine's search is called with the
\* filter and when the filter arrives in the request of the search endpoint; a
\* search with no filter ranks the whole collection.
C11_FilterHonoured ==
    /\ \A value \in search(store, arg.row, arg.limit, arg.filters) :
           \A i \in 1..Len(value) : Matches(value[i].metadata, arg.filters)
    /\ \A value \in search(store, arg.row, arg.limit, None) :
           Len(value) = Min(arg.limit, Cardinality(store))
    /\ pc # "start" =>
           \A i \in 1..Len(results) : Matches(results[i].metadata, arg.filters)

-----------------------------------------------------------------------------
(* SpecBatch: POST /api/scan, scheduled_scraper_job and the background task *)
(* of POST /api/scrape, one batch from its listing to its end               *)

MaxBatch == 3

\* the files a documents folder or a scraped page can hold
BatchFiles == Files \cup {<<"c", ".PDF">>, <<"n", ".txt">>}

\* file_path.suffix.lower(), href.lower()
suffix_lower(ext) == IF ext = ".PDF" THEN ".pdf" ELSE ext

DocSuffixes == {".pdf", ".png", ".jpg", ".jpeg"}

\* file_path.suffix.lower() in ['.pdf', '.png', '.jpg', '.jpeg']
scan_eligible(file) == suffix_lower(file[2]) \in DocSuffixes

\* href.lower().endswith(('.pdf', '.jpg', '.png', '.jpeg'))
scrape_eligible(file) == suffix_lower(file[2]) \in DocSuffixes

\* the orders in which a set of files can be listed
Listings(S) ==
    {l \in [1..Cardinality(S) -> S] : \A i, j \in 1..Cardinality(S) : l[i] = l[j] => i = j}

\* results is the list the loop runs over (files, new_files); response_items
\* logs each turn of the loop; ret holds the handler's counter
InitBatch ==
    /\ store = {}
    /\ disk \in {S \in SUBSET BatchFiles : Cardinality(S) <= MaxBatch}
    /\ storeUp = TRUE
    /\ ret = [op |-> "none", count |-> 0]
    /\ indexedWith = <<>>
    /\ ops = 0
    /\ arg \in [kind : {"scan", "scheduled", "manual"}]
    /\ out = NotRun
    /\ pc = "start"
    /\ results = <<>>
    /\ futures = <<>>
    /\ response_items = <<>>

\* files = [f for f in DOCS_FOLDER.iterdir() if f.is_file()]
ScanList ==
    /\ pc = "start"
    /\ arg.kind = "scan"
    /\ \E files \in Listings(disk) : results' = files
    /\ pc' = "loop"
    /\ UNCHANGED <<engineVars, pureVars, futures, response_items>>

\* new_files = scrape_website(url, DOCS_FOLDER): the linked documents that
\* were not in the folder are written to it and listed
ScrapeList ==
    /\ pc = "start"
    /\ arg.kind \in {"scheduled", "manual"}
    /\ \E S \in SUBSET {f \in BatchFiles \ disk : scrape_eligible(f)} :
         /\ Cardinality(S) <= MaxBatch
         /\ disk' = disk \cup S
         /\ \E new_files \in Listings(S) : results' = new_files
    /\ pc' = "loop"
    /\ UNCHANGED <<store, storeUp, ret, indexedWith, ops, pureVars, futures,
                   response_items>>

\* where the loop goes after process_file: an exception leaves the loop
after_file(r) == IF r.raised THEN "error" ELSE "loop"

\* if process_file(file_path): count += 1
counted(count, r) == IF r.value THEN count + 1 ELSE count

\* one turn of the for loop
BatchStep ==
    /\ pc = "loop"
    /\ Len(response_items) < Len(results)
    /\ LET file == results[Len(response_items) + 1]
       IN  IF arg.kind = "scan" /\ ~scan_eligible(file)
           THEN /\ response_items' =
                       Append(response_items,
                              [file |-> file, called |-> FALSE, returned |-> FALSE])
                /\ UNCHANGED <<store, ret, pc>>
           ELSE \E kind \in {"text", "missing", "raise"} :
                  LET ocr == IF kind = "text" THEN ocr_read(file)
                             ELSE [kind |-> kind, file |-> file, text |-> <<>>]
                  IN  \E uuids \in [1..Len(chunks_of(ocr.text)) -> Suffix] :
                        LET r == process_file(store, storeUp, ocr, uuids)
                        IN  /\ pc' = after_file(r)
                            /\ store' = r.store
                            /\ ret' = [ret EXCEPT !.count = counted(@, r)]
                            /\ response_items' =
                                   Append(response_items,
                                          [file |-> file, called |-> TRUE,
                                           returned |-> r.value])
    /\ UNCHANGED <<disk, storeUp, indexedWith, ops, pureVars, results, futures>>

\* the loop is over: the rescan answers with its count, the jobs end
BatchReturn ==
    /\ pc = "loop"
    /\ Len(response_items) = Len(results)
    /\ pc' = "done"
    /\ out' = Ran([status |-> "success", count |-> ret.count])
    /\ UNCHANGED <<engineVars, arg, results, futures, response_items>>

BatchRuns == ScanList \/ ScrapeList \/ BatchStep \/ BatchReturn

NextBatch ==
    \/ ScanList
    \/ ScrapeList
    \/ BatchStep
    \/ BatchReturn
    \/ StoreFails
    \/ StoreRecovers

\* the handler and the job threads keep running; the store fails or not
SpecBatch == InitBatch /\ [][NextBatch]_vars /\ WF_vars(BatchRuns)

\* every file of the list had its turn, in order; process_file was called for
\* the eligible ones; the count is the number of calls that returned True
BatchCovered ==
    /\ Len(response_items) = Len(results)
    /\ \A k \in 1..Len(results) :
           /\ response_items[k].file = results[k]
           /\ response_items[k].called =
                  (arg.kind # "scan" \/ scan_eligible(results[k]))
    /\ out.value.count =
           Cardinality({k \in 1..Len(results) : response_items[k].returned})

\* C14: no failure of process_file ends a batch: the rescan and the scrape
\* jobs always reach their end, by then process_file was called for every
\* eligible file of the batch, whatever the earlier calls returned, and the
\* count the rescan reports is the number of calls that returned True.
C14_BatchCompletes ==
    /\ [](pc # "error")
    /\ [](pc = "done" => BatchCovered)
    /\ <>(pc = "done")

C14_Witness ==
    /\ pc = "done"
    /\ arg.kind = "scan"
    /\ Len(response_items) = 3
    /\ response_items[1].called
    /\ ~response_items[1].returned
    /\ ~storeUp
    /\ \E k \in 2..3 : ~response_items[k].called
    /\ \E k \in 2..3 : response_items[k].returned
    /\ out.value.count = 1

-----------------------------------------------------------------------------
(* SpecRace: DELETE /api/documents/{filename} on the event loop while a job  *)
(* thread runs process_file                                                  *)

\* the collections the race starts from: nothing indexed, or one file indexed
\* by an earlier pass
RaceStores ==
    {{}} \cup {process_file({}, TRUE, [kind |-> "text", file |-> f, text |-> ContentOf(f)],
                            [k \in 1..2 |-> 1]).store : f \in Files}

\* the files the entries of a collection come from
SourcesOf(st) == {f \in Files : \E e \in st : e.metadata.source_url = Url(f)}

\* arg.file is the file the job processes, arg.target the one deleted; pc is
\* the position of each of the two; ret holds processed_data of process_file
InitRace ==
    /\ arg \in [file : Files, target : Files]
    /\ store \in RaceStores
    /\ disk = SourcesOf(store) \cup {arg.file}
    /\ storeUp = TRUE
    /\ ret = [op |-> "none"]
    /\ indexedWith = <<>>
    /\ ops = 0
    /\ out = NotRun
    /\ pc = [delete |-> "start", process |-> "start"]
    /\ results = <<>>
    /\ futures = <<>>
    /\ response_items = <<>>

\* process_file, line 145: processed_data = ocr_processor.process_document(...)
PfRead ==
    /\ pc.process = "start"
    /\ ret' = [op |-> "process_file", ocr |-> ocr_read(arg.file)]
    /\ pc' = [pc EXCEPT !.process = "read"]
    /\ UNCHANGED <<store, disk, storeUp, indexedWith, ops, pureVars, results, futures,
                   response_items>>

\* process_file, lines 147-166, on the text read before
PfIndex ==
    /\ pc.process = "read"
    /\ \E uuids \in [1..Len(chunks_of(ret.ocr.text)) -> Suffix] :
         LET r == process_file(store, storeUp, ret.ocr, uuids)
         IN  /\ store' = r.store
             /\ out' = Ran(r.value)
    /\ pc' = [pc EXCEPT !.process = "done"]
    /\ UNCHANGED <<disk, storeUp, ret, indexedWith, ops, arg, results, futures,
                   response_items>>

\* delete_document, line 250: if file_path.exists(): os.remove(file_path)
DelRemove ==
    /\ pc.delete = "start"
    /\ disk' = disk \ {arg.target}
    /\ pc' = [pc EXCEPT !.delete = "removed"]
    /\ UNCHANGED <<store, storeUp, ret, indexedWith, ops, pureVars, results, futures,
                   response_items>>

\* delete_document, line 251: search_engine.delete_document(filename)
DelPurge ==
    /\ pc.delete = "removed"
    /\ LET r == delete_document(store, storeUp, arg.target)
       IN  /\ store' = r.store
           /\ pc' = [pc EXCEPT !.delete = IF r.raised THEN "error" ELSE "done"]
    /\ UNCHANGED <<disk, storeUp, ret, indexedWith, ops, pureVars, results, futures,
                   response_items>>

NextRace ==
    \/ PfRead
    \/ PfIndex
    \/ DelRemove
    \/ DelPurge

SpecRace == InitRace /\ [][NextRace]_vars

\* C15: once the delete of a file and a process_file of the same file have
\* both finished, in whatever order their steps were taken, every entry of
\* the store has the source_url of a file that is in the documents folder.
C15_IndexMatchesDisk ==
    (pc.delete = "done" /\ pc.process = "done" /\ arg.target = arg.file)
        => \A e \in store : \E f \in disk : e.metadata.source_url = Url(f)

-----------------------------------------------------------------------------
(* SpecChunk: the chunker of index_document on every text length *)

InitChunk ==
    /\ arg \in {[text |-> TextOfLen(n)] : n \in 0..MaxTextLen}
    /\ out = NotRun
    /\ IdleEngine
    /\ IdleEndpoint

Chunk ==
    /\ ~out.done
    /\ out' = Ran(chunks_of(arg.text))
    /\ UNCHANGED <<arg, engineVars, endpointVars>>

SpecChunk == InitChunk /\ [][Chunk]_vars

\* C3: every chunk is at most chunk_size long; the first chunk_size - 50
\* characters of every chunk but the last, followed by the whole last chunk,
\* are the text again; the empty text has no chunks.
C3_ChunksReconstruct ==
    out.done =>
        LET chunks == out.value
            n == Len(chunks)
            step == chunk_size - chunk_overlap
        IN  /\ \A k \in 1..n : Len(chunks[k]) <= chunk_size
            /\ Concat([k \in 1..n |->
                          IF k < n THEN SubSeq(chunks[k], 1, step) ELSE chunks[k]])
                   = arg.text
            /\ (arg.text = <<>> => n = 0)

C3_Witness ==
    /\ out.done
    /\ Len(out.value) = 3
    /\ Len(out.value[1]) = chunk_size
    /\ Len(out.value[3]) < chunk_overlap

-----------------------------------------------------------------------------
(* SpecDate: extract_date_from_text of app.py and of backend_main.py *)

InitDate ==
    /\ arg \in [variant : {"app", "backend"}, text : TextsOf(DateFrags, MaxDateFrags)]
    /\ out = NotRun
    /\ IdleEngine
    /\ IdleEndpoint

ExtractDate ==
    /\ ~out.done
    /\ out' = Ran(extract_date_from_text(arg.variant, arg.text))
    /\ UNCHANGED <<arg, engineVars, endpointVars>>

SpecDate == InitDate /\ [][ExtractDate]_vars

\* the whole of s is one match of the pattern
FullMatch(items, s) == Len(s) \in MatchEnds(items, s, 0)

\* C7: the result is the leftmost match of the first pattern of the list that
\* matches anywhere in the text, wherever later patterns match; with no match
\* it is today's date; a text with both 15/03/2024 and March 20, 2024 gives
\* 15/03/2024.
C7_DatePriority ==
    out.done =>
        LET ps == patterns(arg.variant)
            hit == {k \in 1..Len(ps) : MatchStarts(ps[k], arg.text) # {}}
        IN  /\ hit = {} => out.value = Today
            /\ hit # {} =>
                   LET k == SetMin(hit)
                       s == SetMin(MatchStarts(ps[k], arg.text))
                   IN  /\ FullMatch(ps[k], out.value)
                       /\ StartsAt(arg.text, s, out.value)
            /\ (Contains(arg.text, FragDMY) /\ Contains(arg.text, FragMonthDay))
                   => out.value = FragDMY

C7_Witness ==
    /\ out.done
    /\ arg.text = FragMonthDay \o FragOn \o FragDMY
    /\ out.value = FragDMY

-----------------------------------------------------------------------------
(* SpecAge: get_ai_extraction on chunk texts with and without birth years *)

AgeLlm == {[kind |-> "raise"], [kind |-> "reply", text |-> <<"2", "1">>]}

InitAge ==
    /\ arg \in [text : TextsOf(AgeFrags, MaxAgeFrags), query : AgeQueries,
                current_year : Years, llm : AgeLlm]
    /\ out = NotRun
    /\ IdleEngine
    /\ IdleEndpoint

ExtractAge ==
    /\ ~out.done
    /\ out' = Ran(get_ai_extraction(arg.text, arg.query, arg.current_year, arg.llm))
    /\ UNCHANGED <<arg, engineVars, endpointVars>>

SpecAge == InitAge /\ [][ExtractAge]_vars

\* the 4-digit numbers of the text: maximal runs of exactly four digits
YearTokens(t) ==
    {ToInt(SubSeq(t, s + 1, s + 4)) :
        s \in {u \in 0..(Len(t) - 4) :
                  /\ \A j \in 1..4 : t[u + j] \in DigitChars
                  /\ (u = 0 \/ t[u] \notin DigitChars)
                  /\ (u + 4 = Len(t) \/ t[u + 5] \notin DigitChars)}}

\* the years of the plausible birth-year band
BandYears(t, current_year) ==
    {y \in YearTokens(t) : 1980 < y /\ y < current_year - 15}

\* C6: for an age query on a text with a year in the band 1980 < y <
\* current_year - 15, the answer is the greatest current_year - y, and the
\* external LLM capability is not invoked.
C6_AgeFromBand ==
    (out.done /\ Contains(Lower(arg.query), AgeWord)
        /\ BandYears(arg.text, arg.current_year) # {}) =>
        /\ out.value.value =
               Some(ToStr(SetMax({arg.current_year - y :
                                      y \in BandYears(arg.text, arg.current_year)})))
        /\ ~out.value.llm_called

====
